---- MODULE Spec2Model ----
(***************************************************************************)
(* A model of app.py: the Flask handlers generate_post (POST /generate)    *)
(* and get_posts (GET /posts) over the Post table.                         *)
(*                                                                         *)
(* Requests are served by concurrent threads.  A generate request is cut   *)
(* at the points where other requests can interleave with it:              *)
(*   generate_post_request  lines 59-91, up to the HTTP call going out;    *)
(*   generate_post_reply    lines 91-109, the reply is checked and parsed  *)
(*                          and the Post is added to the session;          *)
(*   generate_post_flush    line 110, the INSERT of db.session.commit();   *)
(*   generate_post_commit   line 110, the COMMIT, then lines 114-117.      *)
(* get_posts runs in one step.  Requests are numbered in the order in      *)
(* which they arrive; each keeps what it received and what it answered.    *)
(* The clock is read by the flush alone, and its readings never decrease.  *)
(***************************************************************************)
EXTENDS Integers, Sequences, FiniteSets, TLC

\* ------------------------------------------------------------- bounds
\* The generate requests of a behaviour, and the last reading of the clock.
MaxReqs == 2
MaxTime == 1
\* SpecRT: the strs of a hashtag list, and the characters they hold together.
MaxTags == 2
MaxChars == 3

Reqs == 1..MaxReqs

\* ------------------------------------------------------------- values
\* Python's None (a missing dict key, a JSON null).
None == "None"

Fields == {"topic", "tone", "platform", "persona"}

Valid == [topic |-> "coffee", tone |-> "playful", platform |-> "Instagram", persona |-> "barista"]

\* f without key k.
Drop(f, k) == [x \in (DOMAIN f) \ {k} |-> f[x]]

\* The JSON bodies of POST /generate that are enumerated: an object (a dict
\* with some of the four keys) or the JSON value null.
Bodies ==
    {[kind |-> "object", data |-> d] :
        d \in {Valid, [x \in {} |-> ""], Drop(Valid, "topic"), [Valid EXCEPT !.tone = ""],
               Drop(Valid, "platform"), [Valid EXCEPT !.persona = ""]}}
    \cup {[kind |-> "null", data |-> [x \in {} |-> ""]]}

\* ------------------------------------------------------------- hashtags as JSON text
\* A text is a sequence of characters; a character is a one-character string,
\* but for NonAscii, which stands for U+00E9.
NonAscii == "U+00E9"
Alphabet == {"a", ",", "\"", "\\", "\n", NonAscii}

\* EncodeChar with the backslash left as it is.
EncodeCharBackslashUnescaped(c) ==
    CASE c = "\"" -> <<"\\", "\"">>
      [] c = "\n" -> <<"\\", "n">>
      [] c = NonAscii -> <<"\\", "u", "0", "0", "e", "9">>
      [] OTHER -> <<c>>

\* json.dumps of one character of a str (ensure_ascii=True).
EncodeChar(c) ==
    CASE c = "\"" -> <<"\\", "\"">>
      [] c = "\\" -> <<"\\", "\\">>
      [] c = "\n" -> <<"\\", "n">>
      [] c = NonAscii -> <<"\\", "u", "0", "0", "e", "9">>
      [] OTHER -> <<c>>

RECURSIVE EncodeChars(_)
EncodeChars(s) == IF s = <<>> THEN <<>> ELSE EncodeChar(Head(s)) \o EncodeChars(Tail(s))

EncodeStr(s) == <<"\"">> \o EncodeChars(s) \o <<"\"">>

RECURSIVE EncodeItems(_)
EncodeItems(H) ==
    IF Len(H) = 1 THEN EncodeStr(H[1])
    ELSE EncodeStr(Head(H)) \o <<",", " ">> \o EncodeItems(Tail(H))

\* json.dumps(H) for a list of str H: items separated by ", ".
json_dumps(H) == IF H = <<>> THEN <<"[", "]">> ELSE <<"[">> \o EncodeItems(H) \o <<"]">>

ParseError == [ok |-> FALSE, val |-> <<>>, next |-> 0]

\* The character of a \uXXXX escape; U+00E9 is the one that occurs here.
Unescape4(d) == IF d = <<"0", "0", "e", "9">> THEN NonAscii ELSE "U+FFFD"

HexDigits == {"0", "1", "2", "3", "4", "5", "6", "7", "8", "9", "a", "b", "c", "d", "e", "f"}

\* json.loads inside a string: t[i] is the next character after the opening
\* quote, acc the characters decoded so far.
RECURSIVE ParseStr(_, _, _)
ParseStr(t, i, acc) ==
    IF i > Len(t) THEN ParseError
    ELSE IF t[i] = "\"" THEN [ok |-> TRUE, val |-> acc, next |-> i + 1]
    ELSE IF t[i] = "\\" THEN
        IF i + 1 > Len(t) THEN ParseError
        ELSE IF t[i + 1] \in {"\"", "\\", "/"} THEN ParseStr(t, i + 2, Append(acc, t[i + 1]))
        ELSE IF t[i + 1] = "n" THEN ParseStr(t, i + 2, Append(acc, "\n"))
        ELSE IF t[i + 1] = "u" THEN
            IF i + 5 > Len(t) \/ \E k \in 2..5 : t[i + k] \notin HexDigits THEN ParseError
            ELSE ParseStr(t, i + 6, Append(acc, Unescape4(SubSeq(t, i + 2, i + 5))))
        ELSE ParseError
    ELSE IF t[i] = "\n" THEN ParseError
    ELSE ParseStr(t, i + 1, Append(acc, t[i]))

\* The first position at or after i that holds no JSON whitespace.
RECURSIVE SkipWs(_, _)
SkipWs(t, i) == IF i <= Len(t) /\ t[i] \in {" ", "\n"} THEN SkipWs(t, i + 1) ELSE i

\* json.loads inside an array of strings: an item is expected at i.
RECURSIVE ParseItems(_, _, _)
ParseItems(t, i, acc) ==
    LET j == SkipWs(t, i) IN
    IF j > Len(t) \/ t[j] # "\"" THEN ParseError
    ELSE LET s == ParseStr(t, j + 1, <<>>) IN
         IF ~s.ok THEN ParseError
         ELSE LET k == SkipWs(t, s.next) IN
              IF k > Len(t) THEN ParseError
              ELSE IF t[k] = "," THEN ParseItems(t, k + 1, Append(acc, s.val))
              ELSE IF t[k] = "]" THEN [ok |-> TRUE, val |-> Append(acc, s.val), next |-> k + 1]
              ELSE ParseError

\* json.loads(t) for a text that holds an array of strings: [ok, val].
json_loads(t) ==
    LET i == SkipWs(t, 1) IN
    IF i > Len(t) \/ t[i] # "[" THEN ParseError
    ELSE LET j == SkipWs(t, i + 1) IN
         IF j <= Len(t) /\ t[j] = "]"
         THEN [ok |-> SkipWs(t, j + 1) > Len(t), val |-> <<>>, next |-> j + 1]
         ELSE LET p == ParseItems(t, j, <<>>) IN
              IF p.ok /\ SkipWs(t, p.next) > Len(t) THEN p ELSE ParseError

\* ------------------------------------------------------------- upstream replies
Tag1 == <<"a">>
Tag2 == <<"\"", ",">>
Tag3 == <<NonAscii, "\\">>

\* The hashtag list the good replies of this specification carry.
Hashtags == <<Tag1, Tag2, Tag3>>

Content(h) == [caption |-> "c", imagePrompt |-> "i", hashtags |-> h]

\* The text payload of a reply: not JSON, JSON that is no object (a list), or
\* a JSON object given as the dict json.loads makes of it.
NotJsonText == [json |-> FALSE, object |-> FALSE, value |-> [x \in {} |-> ""]]
ListText == [json |-> TRUE, object |-> FALSE, value |-> [x \in {} |-> ""]]
ObjectText(d) == [json |-> TRUE, object |-> TRUE, value |-> d]

BadTexts ==
    {NotJsonText, ListText,
     ObjectText(Drop(Content(<<Tag1>>), "caption")),
     ObjectText(Drop(Content(<<Tag1>>), "imagePrompt")),
     ObjectText(Drop(Content(<<Tag1>>), "hashtags"))}

NullCaptionText == ObjectText([Content(<<Tag1>>) EXCEPT !.caption = None])

GoodText == ObjectText(Content(Hashtags))

\* A reply of the AI service: the call fails at network level, or it answers
\* with a status and a body (the envelope): not JSON, JSON without
\* candidates[0].content.parts[0].text, or JSON with that text.
Envelope(kind, text) == [kind |-> kind, text |-> text]
Reply(net, status, env) == [net |-> net, status |-> status, envelope |-> env]

Replies ==
    {Reply("fail", 0, Envelope("notjson", NotJsonText))}
    \cup {Reply("ok", s, Envelope("notjson", NotJsonText)) : s \in {200, 404, 500}}
    \cup {Reply("ok", 200, Envelope("nocandidates", NotJsonText))}
    \cup {Reply("ok", 200, Envelope("text", t)) : t \in BadTexts \cup {NullCaptionText, GoodText}}
    \cup {Reply("ok", 300, Envelope("text", GoodText))}

\* ------------------------------------------------------------- state
VARIABLES
    api_key,    \* whether os.getenv("GEMINI_API_KEY") is set
    now,        \* the last time read from the clock (datetime.utcnow)
    next_id,    \* the table's AUTO_INCREMENT counter
    posts,      \* the committed rows of the Post table
    req,        \* each generate request: where it is and what it holds
    response    \* the response of get_posts, when the last step was get_posts

vars == <<api_key, now, next_id, posts, req, response>>

NoBody == [kind |-> "none", data |-> [x \in {} |-> ""]]
NoReply == Reply("none", 0, Envelope("none", NotJsonText))
NoPost == [state |-> "none"]
NoResp == [status |-> 0, msg |-> "", exc |-> ""]
NoResponse == [status |-> 0, list |-> <<>>]

Idle ==
    [pc |-> "idle", body |-> NoBody, reply |-> NoReply, new_post |-> NoPost,
     resp |-> NoResp, calls |-> 0, writes |-> 0, responses |-> 0]

Init ==
    /\ api_key \in BOOLEAN
    /\ now = 0
    /\ next_id = 1
    /\ posts = {}
    /\ req = [r \in Reqs |-> Idle]
    /\ response = NoResponse

\* ------------------------------------------------------------- generate_post
\* data.get(k)
Get(data, k) == IF k \in DOMAIN data THEN data[k] ELSE None

\* Python's truth value of None or a str.
Truthy(v) == v # None /\ v # ""

\* all([topic, tone, platform, persona])
AllPresent(data) == \A k \in Fields : Truthy(Get(data, k))

\* return jsonify(...), status: the request ends with one response.
Return(rq, status, msg, exc) ==
    [rq EXCEPT !.pc = "done", !.resp = [status |-> status, msg |-> msg, exc |-> exc],
               !.responses = @ + 1]

\* db.session.rollback(): what the session holds uncommitted is discarded.
rollback(rq) == [rq EXCEPT !.new_post = NoPost]

\* ExceptRequestException that sends the call once more before it gives up.
RetryRequestException(rq, e) ==
    IF rq.calls < 2 THEN [rq EXCEPT !.pc = "waiting", !.calls = @ + 1]
    ELSE Return(rq, 500, "Failed to connect to the AI service: ", e)

\* except requests.exceptions.RequestException as e
ExceptRequestException(rq, e) ==
    Return(rq, 500, "Failed to connect to the AI service: ", e)

\* ExceptException whose return leaves out the status, so that Flask answers 200.
ExceptExceptionWithoutStatus(rq, e) ==
    Return(rollback(rq), 200, "An internal server error occurred: ", e)

\* except Exception as e
ExceptException(rq, e) ==
    Return(rollback(rq), 500, "An internal server error occurred: ", e)

\* Lines 59-91: the body is read and validated, the key is looked up and the
\* HTTP call goes out.
Received(rq, body, key) ==
    LET got == [rq EXCEPT !.body = body] IN
    IF body.kind # "object" THEN ExceptException(got, "AttributeError")
    ELSE IF ~AllPresent(body.data) THEN Return(got, 400, "Missing required fields", "")
    ELSE IF ~key THEN Return(got, 500, "GEMINI_API_KEY not found.", "")
    ELSE [got EXCEPT !.pc = "waiting", !.calls = @ + 1]

generate_post_request(r, body) ==
    /\ req[r].pc = "idle"
    /\ r > 1 => req[r - 1].pc # "idle"
    /\ req' = [req EXCEPT ![r] = Received(req[r], body, api_key)]
    /\ response' = NoResponse
    /\ UNCHANGED <<api_key, now, next_id, posts>>

\* response.raise_for_status(): HTTPError for a 4xx or 5xx status.
RaisesForStatus(status) == 400 <= status /\ status < 600

\* NewPost with the caption and the image prompt taken from each other's key.
NewPostSwapped(data, content) ==
    [topic |-> data.topic, persona |-> data.persona, tone |-> data.tone,
     platform |-> data.platform, caption |-> content.imagePrompt,
     image_prompt |-> content.caption, hashtags |-> json_dumps(content.hashtags)]

\* Post(topic=..., ..., hashtags=json.dumps(generated_content['hashtags']))
NewPost(data, content) ==
    [topic |-> data.topic, persona |-> data.persona, tone |-> data.tone,
     platform |-> data.platform, caption |-> content.caption,
     image_prompt |-> content.imagePrompt, hashtags |-> json_dumps(content.hashtags)]

\* Lines 91-109 once the call has ended with `reply`; `newer` is whether the
\* installed requests raises its own JSONDecodeError (a RequestException) from
\* response.json(), as it does from 2.27 on, or json's (a ValueError).
Replied(rq, reply, newer) ==
    LET got == [rq EXCEPT !.reply = reply]
        env == reply.envelope
        text == env.text
    IN
    IF reply.net = "fail" THEN ExceptRequestException(got, "ConnectionError")
    ELSE IF RaisesForStatus(reply.status) THEN ExceptRequestException(got, "HTTPError")
    ELSE IF env.kind = "notjson" THEN
        IF newer THEN ExceptRequestException(got, "JSONDecodeError")
        ELSE ExceptException(got, "JSONDecodeError")
    ELSE IF env.kind = "nocandidates" THEN ExceptException(got, "KeyError")
    ELSE IF ~text.json THEN ExceptException(got, "JSONDecodeError")
    ELSE IF ~text.object THEN ExceptException(got, "TypeError")
    ELSE IF \E k \in {"caption", "imagePrompt", "hashtags"} : k \notin DOMAIN text.value
        THEN ExceptException(got, "KeyError")
    ELSE [got EXCEPT !.pc = "added", !.new_post = NewPost(got.body.data, text.value)]

generate_post_reply(r, reply, newer) ==
    /\ req[r].pc = "waiting"
    /\ req' = [req EXCEPT ![r] = Replied(req[r], reply, newer)]
    /\ response' = NoResponse
    /\ UNCHANGED <<api_key, now, next_id, posts>>

\* The columns declared nullable=False that a request can leave None.
NotNull == {"topic", "persona", "tone", "platform", "caption", "image_prompt"}

\* The row the INSERT writes: the id from the counter, created_at from the
\* column's default, datetime.utcnow.
Row(post, id, t) ==
    [id |-> id, topic |-> post.topic, persona |-> post.persona, tone |-> post.tone,
     platform |-> post.platform, caption |-> post.caption,
     image_prompt |-> post.image_prompt, hashtags |-> post.hashtags, created_at |-> t]

\* Line 110, db.session.commit(), first half: the flush INSERTs the row inside
\* the request's transaction; `ok` is whether the store executes it.
Flushed(rq, id, t, ok) ==
    LET wrote == [rq EXCEPT !.writes = @ + 1] IN
    IF \E c \in NotNull : rq.new_post[c] = None THEN ExceptException(wrote, "IntegrityError")
    ELSE IF ~ok THEN ExceptException(wrote, "OperationalError")
    ELSE [wrote EXCEPT !.pc = "flushed", !.new_post = Row(rq.new_post, id, t)]

\* The clock has reached t when the flush reads it.
generate_post_flush(r, t, ok) ==
    /\ req[r].pc = "added"
    /\ t >= now
    /\ now' = t
    /\ req' = [req EXCEPT ![r] = Flushed(req[r], next_id, t, ok)]
    /\ next_id' = IF req'[r].pc = "flushed" THEN next_id + 1 ELSE next_id
    /\ response' = NoResponse
    /\ UNCHANGED <<api_key, posts>>

\* Line 110, second half, and lines 114-117: the COMMIT; `ok` is whether the
\* store commits.
Committed(rq, ok) ==
    IF ok THEN Return(rq, 200, "", "") ELSE ExceptException(rq, "OperationalError")

\* Insert under autocommit: the row is in the table though the COMMIT failed.
InsertRegardless(table, row, ok) == table \cup {row}

\* Insert that overwrites the table with the new row.
InsertReplacing(table, row, ok) == IF ok THEN {row} ELSE table

\* The table after the COMMIT of `row`.
Insert(table, row, ok) == IF ok THEN table \cup {row} ELSE table

generate_post_commit(r, ok) ==
    /\ req[r].pc = "flushed"
    /\ req' = [req EXCEPT ![r] = Committed(req[r], ok)]
    /\ posts' = Insert(posts, req[r].new_post, ok)
    /\ response' = NoResponse
    /\ UNCHANGED <<api_key, now, next_id>>

\* ------------------------------------------------------------- get_posts
\* post.created_at.isoformat(): the text of the time, in the order of the times.
isoformat(t) == [iso |-> t]

\* OrderByCreatedAtDesc without the order_by: the rows in any order.
Unordered(table) ==
    {p \in [1..Cardinality(table) -> table] : \A i, j \in DOMAIN p : i # j => p[i] # p[j]}

\* Post.query.order_by(Post.created_at.desc()).all(): the rows in an order in
\* which created_at never increases; rows of one created_at come in any order.
OrderByCreatedAtDesc(table) ==
    {p \in [1..Cardinality(table) -> table] :
        /\ \A i, j \in DOMAIN p : i # j => p[i] # p[j]
        /\ \A i, j \in DOMAIN p : i < j => p[i].created_at >= p[j].created_at}

\* One element of posts_list.
Entry(post) ==
    [id |-> post.id, topic |-> post.topic, caption |-> post.caption,
     image_prompt |-> post.image_prompt, hashtags |-> json_loads(post.hashtags).val,
     created_at |-> isoformat(post.created_at)]

\* Lines 133-148 over the rows the query returned; `ok` is whether the query
\* succeeds.
Listed(rows, ok) ==
    IF ~ok \/ \E i \in DOMAIN rows : ~json_loads(rows[i].hashtags).ok
    THEN [status |-> 500, list |-> <<>>]
    ELSE [status |-> 200, list |-> [i \in DOMAIN rows |-> Entry(rows[i])]]

get_posts(ok) ==
    /\ \E rows \in OrderByCreatedAtDesc(posts) : response' = Listed(rows, ok)
    /\ UNCHANGED <<api_key, now, next_id, posts, req>>

Next ==
    \/ \E r \in Reqs, body \in Bodies : generate_post_request(r, body)
    \/ \E r \in Reqs, reply \in Replies, newer \in BOOLEAN : generate_post_reply(r, reply, newer)
    \/ \E r \in Reqs, t \in 0..MaxTime, ok \in BOOLEAN : generate_post_flush(r, t, ok)
    \/ \E r \in Reqs, ok \in BOOLEAN : generate_post_commit(r, ok)
    \/ \E ok \in BOOLEAN : get_posts(ok)

Spec == Init /\ [][Next]_vars

\* ------------------------------------------------------------- one request, many hashtag lists
\* The strs of at most n characters.
StrsUpTo(n) == UNION {[1..m -> Alphabet] : m \in 0..n}

\* The lists of at most k strs that hold at most c characters together.
RECURSIVE ListsOf(_, _)
ListsOf(k, c) ==
    IF k = 0 THEN {<<>>}
    ELSE {<<>>} \cup UNION {{<<t>> \o rest : rest \in ListsOf(k - 1, c - Len(t))} : t \in StrsUpTo(c)}

TagLists == ListsOf(MaxTags, MaxChars)

\* A 200 reply whose text is the JSON object with hashtags h.
GoodReply(h) == Reply("ok", 200, Envelope("text", ObjectText(Content(h))))

\* One request, with the API key set.
InitRT == Init /\ api_key = TRUE

\* The request is valid, its reply is good and carries any of the hashtag
\* lists, the store does not fail, and the posts are listed at any time.
NextRT ==
    \/ generate_post_request(1, [kind |-> "object", data |-> Valid])
    \/ req[1].pc = "waiting" /\ \E h \in TagLists : generate_post_reply(1, GoodReply(h), TRUE)
    \/ generate_post_flush(1, 0, TRUE)
    \/ generate_post_commit(1, TRUE)
    \/ get_posts(TRUE)

SpecRT == InitRT /\ [][NextRT]_vars

\* ------------------------------------------------------------- what the claims speak of
Done(r) == req[r].pc = "done"
Status(r) == req[r].resp.status

\* Some required field is missing from the body or empty in it.
MissingOrEmpty(body) ==
    body # NoBody /\ \E k \in Fields : k \notin DOMAIN body.data \/ body.data[k] = ""

\* The request has written nothing to the store and holds nothing to write.
NoPostBy(r) == req[r].writes = 0 /\ req[r].new_post = NoPost

Is2xx(status) == 200 <= status /\ status <= 299

RequiredKeys == {"caption", "imagePrompt", "hashtags"}

\* The reply carries a text payload.
HasText(reply) == reply.net = "ok" /\ reply.envelope.kind = "text"

\* The text payload is valid JSON with the three keys.
GoodText3(reply) ==
    LET text == reply.envelope.text IN text.json /\ text.object /\ RequiredKeys \subseteq DOMAIN text.value

\* The request got a 2xx reply with a good text and answered 200.
Succeeded(r) ==
    /\ Done(r) /\ Status(r) = 200
    /\ req[r].body.kind = "object" /\ ~MissingOrEmpty(req[r].body)
    /\ HasText(req[r].reply) /\ Is2xx(req[r].reply.status) /\ GoodText3(req[r].reply)

\* The request failed at the upstream call or at parsing; at the store.
GenerationFailed(r) == Done(r) /\ Status(r) # 200 /\ req[r].calls = 1 /\ req[r].writes = 0
StoreFailed(r) == Done(r) /\ Status(r) # 200 /\ req[r].writes = 1

\* ------------------------------------------------------------- C1
\* C1: a generate request with a missing or empty required field is answered
\* 400 {"error": "Missing required fields"}, calls the AI service never and
\* adds no Post.
C1_MissingFields400 ==
    \A r \in Reqs : Done(r) /\ MissingOrEmpty(req[r].body) =>
        /\ Status(r) = 400
        /\ req[r].resp.msg = "Missing required fields"
        /\ req[r].calls = 0
        /\ NoPostBy(r)

\* ------------------------------------------------------------- C2
\* The entries of a successful listing that show the Post of request r.
EntriesOf(r) == {i \in DOMAIN response.list : response.list[i].id = req[r].new_post.id}

C2_State ==
    \A r \in Reqs : Succeeded(r) =>
        LET c == req[r].reply.envelope.text.value
            mine == {p \in posts : p.id = req[r].new_post.id}
        IN
        /\ Cardinality(mine) = 1
        /\ \A p \in mine :
            /\ p = req[r].new_post
            /\ p.topic = req[r].body.data.topic
            /\ p.caption = c.caption
            /\ p.image_prompt = c.imagePrompt
            /\ json_loads(p.hashtags) = [ok |-> TRUE, val |-> c.hashtags, next |-> Len(p.hashtags) + 1]
            /\ response.status = 200 =>
                /\ Cardinality(EntriesOf(r)) = 1
                /\ \A i \in EntriesOf(r) :
                    /\ response.list[i].topic = req[r].body.data.topic
                    /\ response.list[i].caption = c.caption
                    /\ response.list[i].image_prompt = c.imagePrompt
                    /\ response.list[i].hashtags = c.hashtags
                    /\ response.list[i].created_at = isoformat(p.created_at)

C2_Step ==
    \A r \in Reqs :
        \* the save stamps the row with the time the clock shows at the save
        /\ req[r].pc = "added" /\ req'[r].pc = "flushed" => req'[r].new_post.created_at = now'
        \* returning 200 commits exactly that row, and only it
        /\ ~Done(r) /\ Done(r)' /\ Status(r)' = 200 =>
            /\ req[r].pc = "flushed"
            /\ req'[r].new_post = req[r].new_post
            /\ req[r].new_post \notin posts
            /\ posts' = posts \cup {req[r].new_post}

\* C2: a valid request whose 2xx reply carries valid JSON with caption,
\* imagePrompt and hashtags has, once it has returned 200, committed exactly
\* one new Post; every later successful listing shows exactly one entry for
\* it, with the request's topic and the parsed caption, image prompt and
\* hashtags, and created_at the time of the save.
C2_OnePostPerSuccess == []C2_State /\ [][C2_Step]_vars

C2_Witness ==
    \E r \in Reqs : Succeeded(r) /\ response.status = 200 /\ Len(response.list) = 2
                    /\ req[r].new_post.created_at = 1

\* ------------------------------------------------------------- C3
\* C3: a generate request whose upstream call fails at network level or is
\* answered with a non-2xx status creates no Post and is answered 500 with the
\* message of the upstream failure.
C3_UpstreamFailure500 ==
    \A r \in Reqs :
        Done(r) /\ (req[r].reply.net = "fail" \/ (req[r].reply.net = "ok" /\ ~Is2xx(req[r].reply.status))) =>
            /\ Status(r) = 500
            /\ req[r].resp.msg = "Failed to connect to the AI service: "
            /\ NoPostBy(r)

\* ------------------------------------------------------------- C4
\* The reply's text is not valid JSON, or is JSON without one of the keys.
BadText(reply) == HasText(reply) /\ ~GoodText3(reply)

C4_State ==
    \A r \in Reqs : BadText(req[r].reply) => Done(r) /\ Status(r) = 500 /\ NoPostBy(r)

C4_Step ==
    \A r \in Reqs : req[r].reply = NoReply /\ BadText(req'[r].reply) => posts' = posts

\* C4: a generate request whose reply's text is not valid JSON, or parses but
\* lacks caption, imagePrompt or hashtags, creates no Post and is answered 500.
C4_BadText500 == []C4_State /\ [][C4_Step]_vars

C4_Witness ==
    /\ \E r \in Reqs : BadText(req[r].reply) /\ ~req[r].reply.envelope.text.json /\ Status(r) = 500
    /\ \E r \in Reqs : BadText(req[r].reply) /\ req[r].reply.envelope.text.object /\ Status(r) = 500

\* ------------------------------------------------------------- C5
\* C5: every Post in the store is the Post of exactly one generate request that
\* passed validation, got a successful reply, parsed it and committed; no
\* request has more than one Post and no failed request has one.
C5_PostsOfSuccessfulRequests ==
    /\ \A p \in posts : Cardinality({r \in Reqs : Succeeded(r) /\ req[r].new_post = p}) = 1
    /\ \A r \in Reqs : Cardinality({p \in posts : req[r].new_post # NoPost /\ p.id = req[r].new_post.id}) <= 1
    /\ \A r \in Reqs : Done(r) /\ Status(r) # 200 => req[r].new_post = NoPost
    /\ Cardinality(posts) = Cardinality({r \in Reqs : Done(r) /\ Status(r) = 200})

\* ------------------------------------------------------------- C6
\* C6: every successful listing is in the order of created_at, descending.
C6_ListingSorted ==
    response.status = 200 =>
        \A i, j \in DOMAIN response.list :
            i < j => response.list[i].created_at.iso >= response.list[j].created_at.iso

\* Two posts got their ids in the order 1, 2 and were listed newest first.
C6_Witness ==
    /\ response.status = 200
    /\ Len(response.list) = 2
    /\ response.list[1].created_at.iso > response.list[2].created_at.iso
    /\ response.list[1].id > response.list[2].id

\* ------------------------------------------------------------- C7
\* The hashtags the reply of request r carried.
ParsedHashtags(r) == req[r].reply.envelope.text.value.hashtags

\* C7: the hashtags of a parsed reply, serialized for storage by generate and
\* deserialized by listPosts, come back as the same strings in the same order.
C7_HashtagsRoundTrip ==
    /\ \A r \in Reqs : req[r].pc \in {"added", "flushed"} \/ (Done(r) /\ Status(r) = 200) =>
        /\ json_loads(req[r].new_post.hashtags).ok
        /\ json_loads(req[r].new_post.hashtags).val = ParsedHashtags(r)
    /\ posts # {} => response.status # 500
    /\ response.status = 200 =>
        \A i \in DOMAIN response.list :
            \E r \in Reqs : Succeeded(r) /\ response.list[i].id = req[r].new_post.id
                            /\ response.list[i].hashtags = ParsedHashtags(r)

C7_Witness ==
    /\ response.status = 200
    /\ Len(response.list) = 1
    /\ response.list[1].hashtags = <<<<"\"", "\\">>, <<NonAscii>>>>

\* ------------------------------------------------------------- C8
C8_State ==
    \A r \in Reqs : StoreFailed(r) =>
        /\ Status(r) = 500
        /\ req[r].resp.msg # ""
        /\ req[r].new_post = NoPost
        /\ \A g \in Reqs : GenerationFailed(g) => req[g].resp # req[r].resp

C8_Step ==
    \A r \in Reqs : ~Done(r) /\ StoreFailed(r)' => posts' = posts

C9_State ==
    \A r \in Reqs :
        /\ req[r].calls <= 1
        /\ req[r].writes <= 1
        /\ req[r].responses = (IF Done(r) THEN 1 ELSE 0)
        /\ Status(r) # 0 => Done(r)

C9_Step ==
    \A r \in Reqs :
        \* a request that has answered takes no further step
        /\ Done(r) => req'[r] = req[r]
        \* a failure ends the request in the step in which it occurs
        /\ ~Done(r) /\ req'[r].resp.exc # "" => Done(r)' /\ Status(r)' = 500

\* C9: a generate request calls the AI service at most once and writes to the
\* store at most once; after a failure it retries nothing and ends at once,
\* with one error response.
C9_NoRetry == []C9_State /\ [][C9_Step]_vars

C9_Witness ==
    /\ \E r \in Reqs : Done(r) /\ req[r].resp.exc = "HTTPError" /\ req[r].calls = 1
    /\ \E r \in Reqs : StoreFailed(r) /\ req[r].calls = 1

\* ------------------------------------------------------------- C10
C10_Step ==
    /\ posts \subseteq posts'
    /\ \A p, q \in posts' : p.id = q.id => p = q
    /\ response' # NoResponse => posts' = posts
    /\ posts' # posts =>
        \E r \in Reqs : /\ ~Done(r) /\ Done(r)'
                        /\ posts' \ posts = {req[r].new_post}
                        /\ \A o \in Reqs \ {r} : req'[o] = req[o]

\* C10: a committed Post is never changed or removed; listPosts leaves the
\* store as it is, and a generate request changes it only by adding its one
\* new Post.
C10_WriteOnce == [][C10_Step]_vars

C10_Witness ==
    /\ Cardinality(posts) = 2
    /\ response.status = 200
    /\ Len(response.list) = 2

====
